---- MODULE Spec2Model ----
(***************************************************************************)
(* ANT+ heart rate device profile (ant/plus/heartrate.py): the HeartRate   *)
(* object, its lock, the fields _set_data and _set_detected_device write,  *)
(* the computed_heart_rate accessor and the observer callbacks, as run by  *)
(* several threads.  Each thread is always inside at most one call; a call *)
(* advances statement by statement, so that the only atomicity is the one  *)
(* the lock gives.                                                         *)
(***************************************************************************)
EXTENDS Integers, Sequences, FiniteSets, TLC

\* ------------------------------------------------------------------ bounds
\* Total number of top-level calls (of any operation) in a behaviour.
MaxCalls == 3

\* The two execution contexts: the one the channel delivers events in and the
\* application's.  Either may make any of the calls.
Threads == {1, 2}

\* ------------------------------------------------------- program constants
data_size == 9
payload_offset == 1
event_time_lsb_index == 4 + payload_offset
event_time_msb_index == 5 + payload_offset
heart_beat_count_index == 6 + payload_offset
computed_heart_rate_index == 7 + payload_offset

\* Python's None for an integer-valued field (outside the byte range).
None == -1
\* An attribute the object does not have (reading it raises AttributeError).
NoAttribute == -2
\* Python's None for the detected device (a pair once set).
NoDevice == << >>
\* The lock is free (no thread holds it).
Free == 0

\* ------------------------------------------------------------------ inputs
\* data[i] of the source (0-indexed) on a TLA+ sequence (1-indexed).
At(d, i) == d[i + 1]

BadLengths == {0, 1, 8, 10, 100}
BeatBytes == {0, 1, 255}
\* Event time (lsb, msb) and computed heart rate of a message: event time 1024
\* with 60 bpm, event time 1 with 0 bpm.
Readings == {<<0, 4, 60>>, <<1, 0, 0>>}
DeviceNumbers == {1, 2}
TransmissionTypes == {1}

\* A channel message of n bytes: channel number, page bytes, then event time
\* (lsb, msb), heart beat count and computed heart rate.
Payload(n, lsb, msb, beats, bpm) ==
    [i \in 1..n |->
        CASE i = event_time_lsb_index + 1 -> lsb
          [] i = event_time_msb_index + 1 -> msb
          [] i = heart_beat_count_index + 1 -> beats
          [] i = computed_heart_rate_index + 1 -> bpm
          [] OTHER -> 0]

ValidPayloads ==
    {Payload(data_size, r[1], r[2], b, r[3]) : r \in Readings, b \in BeatBytes}
InvalidPayloads == {Payload(n, 0, 4, 1, 60) : n \in BadLengths}
Payloads == ValidPayloads \cup InvalidPayloads

\* The callback argument of the constructor: None, or an object that has any
\* subset of the two methods.
Observers ==
    {[registered |-> FALSE, device_found |-> FALSE, heartrate_data |-> FALSE]}
    \cup [registered : {TRUE}, device_found : BOOLEAN, heartrate_data : BOOLEAN]

\* ------------------------------------------------------------------- state
VARIABLES
    callback,               \* self.callback
    lock,                   \* self.lock: Free or the thread holding it
    _computed_heart_rate,   \* self._computed_heart_rate
    _beat_count,            \* self._beat_count
    _previous_beat_count,   \* self._previous_beat_count
    _previous_event_time,   \* self._previous_event_time (set by __init__)
    previous_event_time,    \* self.previous_event_time (read and set by _set_data)
    _detected_device,       \* self._detected_device
    pc,                     \* each thread's position
    frame,                  \* each thread's locals
    ncalls,                 \* calls made so far
    nmsg,                   \* valid messages that have taken the lock so far
    dropped,                \* messages _set_data has dropped so far
    writer,                 \* per field, the message that wrote it last (0: __init__)
    serial                  \* the state after the messages so far, one at a time

fields == <<_computed_heart_rate, _beat_count, _previous_beat_count,
            _previous_event_time, previous_event_time>>
vars == <<callback, lock, _computed_heart_rate, _beat_count, _previous_beat_count,
          _previous_event_time, previous_event_time, _detected_device,
          pc, frame, ncalls, nmsg, dropped, writer, serial>>

\* A thread's locals: data, difference, rr_interval (_set_data), device
\* (_set_detected_device's two parameters), rate (computed_heart_rate), args
\* (what a callback was called with), msg (the number of the message being
\* processed), own (the heart rate and the beat count this call has written),
\* ret (where computed_heart_rate was read from) and detected (what
\* detected_device returns).
EmptyFrame ==
    [data |-> << >>, msg |-> 0, difference |-> 0, rr_interval |-> 0,
     args |-> << >>, device |-> NoDevice, rate |-> None, ret |-> "idle",
     detected |-> NoDevice, own |-> << >>]

Init ==
    /\ callback \in Observers
    /\ lock = Free
    /\ _computed_heart_rate = None
    /\ _beat_count = 0
    /\ _previous_beat_count = 0
    /\ _previous_event_time = 0
    /\ previous_event_time = NoAttribute
    /\ _detected_device = NoDevice
    /\ pc = [t \in Threads |-> "idle"]
    /\ frame = [t \in Threads |-> EmptyFrame]
    /\ ncalls = 0
    /\ nmsg = 0
    /\ dropped = 0
    /\ writer = [rate |-> 0, count |-> 0, previous |-> 0, time |-> 0]
    /\ serial = [rate |-> None, count |-> 0, previous |-> 0, time |-> NoAttribute]

\* A call returns to the thread's caller; its locals are gone.
Return(t) ==
    /\ pc' = [pc EXCEPT ![t] = "idle"]
    /\ frame' = [frame EXCEPT ![t] = EmptyFrame]

Goto(t, label) == pc' = [pc EXCEPT ![t] = label]

\* ------------------------------------------------------------ _set_data
\* Line 100 with < for != (longer messages get through).
WrongSizeShortOnly(d) == Len(d) < data_size

\* Line 100: the length test that makes _set_data return at once.
WrongSize(d) == Len(d) # data_size

\* Lines 107-112 without the wrap correction.
DifferenceNoWrap(previous, beat_count) == beat_count - previous

\* Lines 107-112 with a correction of 255 for 256.
DifferenceOffByOne(previous, beat_count) ==
    IF previous > beat_count
    THEN (beat_count + 255) - previous
    ELSE beat_count - previous

\* Lines 107-112: the beats since the previous message, the 8-bit counter
\* having wrapped when the previous count is the larger one.
Difference(previous, beat_count) ==
    IF previous > beat_count
    THEN (beat_count + 256) - previous
    ELSE beat_count - previous

\* Line 118: (msb << 8) + lsb.
EventTime(d) ==
    (At(d, event_time_msb_index) * 256) + At(d, event_time_lsb_index)

\* Line 119 with >= for ==.
SingleBeatOrMore(difference) == difference >= 1

\* Line 119: the test that selects the R-R computation.
SingleBeat(difference) == difference = 1

\* Line 120: integer division (Python 2, no "division" future import) rounds
\* towards minus infinity, as \div does.
Interval(event_time, previous) == ((event_time - previous) * 1000) \div 1024

\* Lines 90-101: _set_data(data) is called; a message of the wrong size is
\* dropped, any other goes on to the lock.
SetDataCall(t, d) ==
    /\ pc[t] = "idle"
    /\ ncalls < MaxCalls
    /\ ncalls' = ncalls + 1
    /\ IF WrongSize(d)
       THEN /\ Return(t)
            /\ dropped' = dropped + 1
       ELSE /\ Goto(t, "sd_lock")
            /\ frame' = [frame EXCEPT ![t] = [EmptyFrame EXCEPT !.data = d]]
            /\ UNCHANGED dropped
    /\ UNCHANGED <<callback, serial, lock, fields, _detected_device, nmsg, writer>>

\* Lines 104-124 run by one thread alone on the state s = [rate, count,
\* previous, time]: what a message d makes of the heart rate, the cumulative
\* beat count, the previous raw beat count and the previous event time.  The
\* AttributeError of line 120 leaves before line 124.
ApplyMessage(s, d) ==
    [rate |-> At(d, computed_heart_rate_index),
     count |-> s.count + Difference(s.previous, At(d, heart_beat_count_index)),
     previous |-> At(d, heart_beat_count_index),
     time |-> IF /\ SingleBeat(Difference(s.previous, At(d, heart_beat_count_index)))
                 /\ s.time = NoAttribute
              THEN s.time
              ELSE EventTime(d)]

\* Line 103 entered without waiting for the lock.
SetDataAcquireNoWait(t) ==
    /\ pc[t] = "sd_lock"
    /\ lock' = t
    /\ nmsg' = nmsg + 1
    /\ serial' = ApplyMessage(serial, frame[t].data)
    /\ frame' = [frame EXCEPT ![t].msg = nmsg + 1]
    /\ Goto(t, "sd_rate")
    /\ UNCHANGED <<callback, fields, _detected_device, ncalls, dropped, writer>>

\* Line 103: with self.lock (entry).  The message takes its place in the order
\* of the updates.
SetDataAcquire(t) ==
    /\ pc[t] = "sd_lock"
    /\ lock = Free
    /\ lock' = t
    /\ nmsg' = nmsg + 1
    /\ serial' = ApplyMessage(serial, frame[t].data)
    /\ frame' = [frame EXCEPT ![t].msg = nmsg + 1]
    /\ Goto(t, "sd_rate")
    /\ UNCHANGED <<callback, fields, _detected_device, ncalls, dropped, writer>>

\* Line 104.
SetDataRate(t) ==
    /\ pc[t] = "sd_rate"
    /\ _computed_heart_rate' = At(frame[t].data, computed_heart_rate_index)
    /\ writer' = [writer EXCEPT !.rate = frame[t].msg]
    /\ frame' = [frame EXCEPT ![t].own = <<_computed_heart_rate'>>]
    /\ Goto(t, "sd_count")
    /\ UNCHANGED <<callback, serial, lock, _beat_count, _previous_beat_count,
                   _previous_event_time, previous_event_time, _detected_device,
                   ncalls, nmsg, dropped>>

\* Lines 106-116 without line 113: the previous raw count is never stored.
SetDataCountNoStore(t) ==
    /\ pc[t] = "sd_count"
    /\ _previous_beat_count' = _previous_beat_count
    /\ _beat_count' = _beat_count
          + Difference(_previous_beat_count,
                       At(frame[t].data, heart_beat_count_index))
    /\ frame' = [frame EXCEPT
          ![t].difference =
              Difference(_previous_beat_count,
                         At(frame[t].data, heart_beat_count_index)),
          ![t].own = Append(frame[t].own, _beat_count')]
    /\ writer' = [writer EXCEPT !.previous = frame[t].msg, !.count = frame[t].msg]
    /\ Goto(t, "sd_time")
    /\ UNCHANGED <<callback, serial, lock, _computed_heart_rate,
                   _previous_event_time, previous_event_time, _detected_device,
                   ncalls, nmsg, dropped>>

\* Lines 106-116.
SetDataCount(t) ==
    /\ pc[t] = "sd_count"
    /\ _previous_beat_count' = At(frame[t].data, heart_beat_count_index)
    /\ _beat_count' = _beat_count
          + Difference(_previous_beat_count,
                       At(frame[t].data, heart_beat_count_index))
    /\ frame' = [frame EXCEPT
          ![t].difference =
              Difference(_previous_beat_count,
                         At(frame[t].data, heart_beat_count_index)),
          ![t].own = Append(frame[t].own, _beat_count')]
    /\ writer' = [writer EXCEPT !.previous = frame[t].msg, !.count = frame[t].msg]
    /\ Goto(t, "sd_time")
    /\ UNCHANGED <<callback, serial, lock, _computed_heart_rate,
                   _previous_event_time, previous_event_time, _detected_device,
                   ncalls, nmsg, dropped>>

\* Lines 118-124 with lines 126-129 indented into the with block: the lock is
\* still held when the callback is looked up and called.
SetDataTimeInsideWith(t) ==
    /\ pc[t] = "sd_time"
    /\ IF SingleBeat(frame[t].difference) /\ previous_event_time = NoAttribute
       THEN /\ lock' = Free
            /\ Goto(t, "sd_raise")
            /\ UNCHANGED <<frame, previous_event_time, writer>>
       ELSE /\ lock' = lock
            /\ frame' = [frame EXCEPT
                  ![t].rr_interval =
                      IF SingleBeat(frame[t].difference)
                      THEN Interval(EventTime(frame[t].data), previous_event_time)
                      ELSE 0,
                  ![t].data = << >>]
            /\ previous_event_time' = EventTime(frame[t].data)
            /\ writer' = [writer EXCEPT !.time = frame[t].msg]
            /\ Goto(t, "sd_notify")
    /\ UNCHANGED <<callback, serial, _computed_heart_rate, _beat_count, _previous_beat_count,
                   _previous_event_time, _detected_device, ncalls, nmsg, dropped>>

\* Lines 118-124 with the lock kept when line 120 raises.
SetDataTimeKeepsLockOnError(t) ==
    /\ pc[t] = "sd_time"
    /\ IF SingleBeat(frame[t].difference) /\ previous_event_time = NoAttribute
       THEN /\ lock' = lock
            /\ Goto(t, "sd_raise")
            /\ UNCHANGED <<frame, previous_event_time, writer>>
       ELSE /\ lock' = Free
            /\ frame' = [frame EXCEPT
                  ![t].rr_interval =
                      IF SingleBeat(frame[t].difference)
                      THEN Interval(EventTime(frame[t].data), previous_event_time)
                      ELSE 0,
                  ![t].data = << >>]
            /\ previous_event_time' = EventTime(frame[t].data)
            /\ writer' = [writer EXCEPT !.time = frame[t].msg]
            /\ Goto(t, "sd_notify")
    /\ UNCHANGED <<callback, serial, _computed_heart_rate, _beat_count, _previous_beat_count,
                   _previous_event_time, _detected_device, ncalls, nmsg, dropped>>

\* Lines 118-124 and the end of the with block.  self.previous_event_time is an
\* attribute only once line 124 has run (__init__ sets
\* self._previous_event_time): reading it before that raises AttributeError.
\* Either way the with statement releases the lock.  data is not read again.
SetDataTime(t) ==
    /\ pc[t] = "sd_time"
    /\ lock' = Free
    /\ IF SingleBeat(frame[t].difference) /\ previous_event_time = NoAttribute
       THEN /\ Goto(t, "sd_raise")
            /\ UNCHANGED <<frame, previous_event_time, writer>>
       ELSE /\ frame' = [frame EXCEPT
                  ![t].rr_interval =
                      IF SingleBeat(frame[t].difference)
                      THEN Interval(EventTime(frame[t].data), previous_event_time)
                      ELSE 0,
                  ![t].data = << >>]
            /\ previous_event_time' = EventTime(frame[t].data)
            /\ writer' = [writer EXCEPT !.time = frame[t].msg]
            /\ Goto(t, "sd_notify")
    /\ UNCHANGED <<callback, serial, _computed_heart_rate, _beat_count, _previous_beat_count,
                   _previous_event_time, _detected_device, ncalls, nmsg, dropped>>

\* The AttributeError leaves _set_data.
SetDataRaise(t) ==
    /\ pc[t] = "sd_raise"
    /\ Return(t)
    /\ UNCHANGED <<callback, serial, lock, fields, _detected_device, ncalls, nmsg, dropped, writer>>

\* Lines 126-129: without the callback or its method _set_data returns;
\* otherwise the first argument of heartrate_data is read.
SetDataNotify(t) ==
    /\ pc[t] = "sd_notify"
    /\ IF callback.registered /\ callback.heartrate_data
       THEN /\ Goto(t, "sd_args")
            /\ frame' = [frame EXCEPT ![t].args = <<_computed_heart_rate>>]
       ELSE Return(t)
    /\ UNCHANGED <<callback, serial, lock, fields, _detected_device, ncalls, nmsg, dropped, writer>>

\* Line 129: the second and third arguments are read and heartrate_data is
\* entered.
SetDataArgs(t) ==
    /\ pc[t] = "sd_args"
    /\ frame' = [frame EXCEPT ![t].args =
                    frame[t].args \o <<_beat_count, frame[t].rr_interval>>]
    /\ Goto(t, "heartrate_data")
    /\ UNCHANGED <<callback, serial, lock, fields, _detected_device, ncalls, nmsg, dropped, writer>>

\* -------------------------------------------------- _set_detected_device
\* Line 131: _set_detected_device(device_num, trans_type) is called.
SetDetectedDeviceCall(t, device_num, trans_type) ==
    /\ pc[t] = "idle"
    /\ ncalls < MaxCalls
    /\ ncalls' = ncalls + 1
    /\ Goto(t, "dd_lock")
    /\ frame' = [frame EXCEPT ![t] =
                    [EmptyFrame EXCEPT !.device = <<device_num, trans_type>>]]
    /\ UNCHANGED <<callback, serial, lock, fields, _detected_device, nmsg, dropped, writer>>

\* Line 132: with self.lock (entry).
SetDetectedDeviceAcquire(t) ==
    /\ pc[t] = "dd_lock"
    /\ lock = Free
    /\ lock' = t
    /\ Goto(t, "dd_store")
    /\ UNCHANGED <<callback, serial, fields, _detected_device, frame, ncalls, nmsg, dropped, writer>>

\* Line 133 with the derived state reset for the newly found device.
SetDetectedDeviceStoreReset(t) ==
    /\ pc[t] = "dd_store"
    /\ _detected_device' = frame[t].device
    /\ _computed_heart_rate' = None
    /\ _beat_count' = 0
    /\ lock' = Free
    /\ IF callback.registered /\ callback.device_found
       THEN /\ Goto(t, "device_found")
            /\ frame' = [frame EXCEPT ![t].args = frame[t].device]
       ELSE Return(t)
    /\ UNCHANGED <<callback, serial, _previous_beat_count, _previous_event_time,
                   previous_event_time, ncalls, nmsg, dropped, writer>>

\* Line 133 guarded by "if self._detected_device is None": only the first
\* device found is kept.
SetDetectedDeviceStoreFirstOnly(t) ==
    /\ pc[t] = "dd_store"
    /\ _detected_device' =
           IF _detected_device = NoDevice THEN frame[t].device ELSE _detected_device
    /\ lock' = Free
    /\ IF callback.registered /\ callback.device_found
       THEN /\ Goto(t, "device_found")
            /\ frame' = [frame EXCEPT ![t].args = frame[t].device]
       ELSE Return(t)
    /\ UNCHANGED <<callback, serial, fields, ncalls, nmsg, dropped, writer>>

\* Line 133 and the end of the with block; then lines 135-138: device_found
\* is entered if the callback has it, and without it the call returns.
SetDetectedDeviceStore(t) ==
    /\ pc[t] = "dd_store"
    /\ _detected_device' = frame[t].device
    /\ lock' = Free
    /\ IF callback.registered /\ callback.device_found
       THEN /\ Goto(t, "device_found")
            /\ frame' = [frame EXCEPT ![t].args = frame[t].device]
       ELSE Return(t)
    /\ UNCHANGED <<callback, serial, fields, ncalls, nmsg, dropped, writer>>

\* ---------------------------------------------------- computed_heart_rate
\* Lines 141-145: the property is read by application code.
ComputedHeartRateCall(t) ==
    /\ pc[t] = "idle"
    /\ ncalls < MaxCalls
    /\ ncalls' = ncalls + 1
    /\ Goto(t, "chr_lock")
    /\ frame' = [frame EXCEPT ![t] = EmptyFrame]
    /\ UNCHANGED <<callback, serial, lock, fields, _detected_device, nmsg, dropped, writer>>

\* Line 146: with self.lock (entry).
ComputedHeartRateAcquire(t) ==
    /\ pc[t] = "chr_lock"
    /\ lock = Free
    /\ lock' = t
    /\ Goto(t, "chr_read")
    /\ UNCHANGED <<callback, serial, fields, _detected_device, frame, ncalls, nmsg, dropped, writer>>

\* Line 147 written as "rate = self._computed_heart_rate or None": a rate of
\* 0 is returned as None.
ComputedHeartRateReadFalsy(t) ==
    /\ pc[t] = "chr_read"
    /\ frame' = [frame EXCEPT ![t].rate =
                    IF _computed_heart_rate = 0 THEN None ELSE _computed_heart_rate]
    /\ lock' = Free
    /\ Goto(t, "chr_return")
    /\ UNCHANGED <<callback, serial, fields, _detected_device, ncalls, nmsg, dropped, writer>>

\* Line 147 and the end of the with block.
ComputedHeartRateRead(t) ==
    /\ pc[t] = "chr_read"
    /\ frame' = [frame EXCEPT ![t].rate = _computed_heart_rate]
    /\ lock' = Free
    /\ Goto(t, "chr_return")
    /\ UNCHANGED <<callback, serial, fields, _detected_device, ncalls, nmsg, dropped, writer>>

\* Line 148: the value goes back to where the property was read from: the
\* application, or the observer's method, which then returns as well.
ComputedHeartRateReturn(t) ==
    /\ pc[t] = "chr_return"
    /\ Return(t)
    /\ UNCHANGED <<callback, serial, lock, fields, _detected_device, ncalls, nmsg, dropped, writer>>

\* -------------------------------------------------------- detected_device
\* Lines 150-161: the property is read by application code; the field is read
\* without the lock.
DetectedDeviceCall(t) ==
    /\ pc[t] = "idle"
    /\ ncalls < MaxCalls
    /\ ncalls' = ncalls + 1
    /\ Goto(t, "det_return")
    /\ frame' = [frame EXCEPT ![t] = [EmptyFrame EXCEPT !.detected = _detected_device]]
    /\ UNCHANGED <<callback, serial, lock, fields, _detected_device, nmsg, dropped, writer>>

\* Line 161: the value goes back to the application.
DetectedDeviceReturn(t) ==
    /\ pc[t] = "det_return"
    /\ Return(t)
    /\ UNCHANGED <<callback, serial, lock, fields, _detected_device, ncalls, nmsg, dropped, writer>>

\* ------------------------------------------------------------ the observer
\* Lines 40-56: the observer's methods.  What they do is the application's;
\* here a method returns, after reading computed_heart_rate at most once.
InCallback(t) == pc[t] \in {"heartrate_data", "device_found"}

ObserverRead(t) ==
    /\ InCallback(t)
    /\ frame' = [frame EXCEPT ![t].ret = pc[t]]
    /\ Goto(t, "chr_lock")
    /\ UNCHANGED <<callback, serial, lock, fields, _detected_device, ncalls, nmsg, dropped, writer>>

ObserverReturn(t) ==
    /\ InCallback(t)
    /\ Return(t)
    /\ UNCHANGED <<callback, serial, lock, fields, _detected_device, ncalls, nmsg, dropped, writer>>

\* ------------------------------------------------------------ specification
Next ==
    \E t \in Threads :
        \/ \E d \in Payloads : SetDataCall(t, d)
        \/ SetDataAcquire(t)
        \/ SetDataRate(t)
        \/ SetDataCount(t)
        \/ SetDataTime(t)
        \/ SetDataRaise(t)
        \/ SetDataNotify(t)
        \/ SetDataArgs(t)
        \/ \E n \in DeviceNumbers, ty \in TransmissionTypes :
               SetDetectedDeviceCall(t, n, ty)
        \/ SetDetectedDeviceAcquire(t)
        \/ SetDetectedDeviceStore(t)
        \/ ComputedHeartRateCall(t)
        \/ ComputedHeartRateAcquire(t)
        \/ ComputedHeartRateRead(t)
        \/ ComputedHeartRateReturn(t)
        \/ DetectedDeviceCall(t)
        \/ DetectedDeviceReturn(t)
        \/ ObserverRead(t)
        \/ ObserverReturn(t)

Spec == Init /\ [][Next]_vars

\* The steps of thread t inside an operation or an observer's method: all but
\* the application's decision to make a call.
Run(t) ==
    \/ SetDataAcquire(t)
    \/ SetDataRate(t)
    \/ SetDataCount(t)
    \/ SetDataTime(t)
    \/ SetDataRaise(t)
    \/ SetDataNotify(t)
    \/ SetDataArgs(t)
    \/ SetDetectedDeviceAcquire(t)
    \/ SetDetectedDeviceStore(t)
    \/ ComputedHeartRateAcquire(t)
    \/ ComputedHeartRateRead(t)
    \/ ComputedHeartRateReturn(t)
    \/ DetectedDeviceReturn(t)
    \/ ObserverRead(t)
    \/ ObserverReturn(t)

\* Fair scheduling: a thread that can go on inside an operation is not left
\* waiting for ever, and an observer's method returns.  Whether the
\* application makes another call is left open.
FairSpec == Spec /\ \A t \in Threads : WF_vars(Run(t))

\* ------------------------------------------------------------------ claims
\* Where a thread is, by the operation it is in.
InSetData(t) ==
    pc[t] \in {"sd_lock", "sd_rate", "sd_count", "sd_time", "sd_raise",
               "sd_notify", "sd_args", "heartrate_data"}
InSetDetectedDevice(t) == pc[t] \in {"dd_lock", "dd_store", "device_found"}
InCritical(t) == pc[t] \in {"sd_rate", "sd_count", "sd_time", "dd_store", "chr_read"}

\* The message whose handling wrote each of the four derived fields is one and
\* the same message n.
AllFrom(n) ==
    /\ writer.rate = n
    /\ writer.count = n
    /\ writer.previous = n
    /\ writer.time = n

\* C1: a call of _set_data with a payload whose length is not 9 ends at once:
\* no field, not the detected device, not the lock changes, the thread is back
\* with its caller and no callback has been entered, whatever the state before.
C1_IgnoredLeavesState ==
    [][\A t \in Threads : \A d \in Payloads :
          (SetDataCall(t, d) /\ Len(d) # data_size) =>
              /\ UNCHANGED <<fields, _detected_device, lock, writer, nmsg>>
              /\ pc'[t] = "idle"
              /\ frame'[t] = EmptyFrame]_vars

\* C1 witness: a message has been dropped after a valid one was processed.
C1_Witness ==
    /\ dropped >= 1
    /\ nmsg = 1
    /\ _beat_count = 255
    /\ \A t \in Threads : pc[t] = "idle"

\* C2: whenever the lock is free the four derived fields are all at their
\* construction defaults or were all written by the most recent valid message.
C2_UpdatedTogether ==
    lock = Free =>
        /\ AllFrom(nmsg)
        /\ nmsg = 0 =>
              /\ _computed_heart_rate = None
              /\ _beat_count = 0
              /\ _previous_beat_count = 0
              /\ _previous_event_time = 0

\* C3: with no observer registered no call raises an error.
C3_NoObserverNoError ==
    ~callback.registered => \A t \in Threads : pc[t] # "sd_raise"

\* C4: no step lowers the cumulative beat count, and a step raises it by at
\* most 255.
C4_BeatCountNeverDecreases ==
    [][(_beat_count' - _beat_count) \in 0..255]_vars

\* C4 witness: the count has gone past the 8-bit range (255, then a wrap to 0).
C4_Witness == _beat_count = 256 /\ _previous_beat_count = 0

\* C5: the one step of a valid message that changes the cumulative beat count
\* adds (r - p) mod 256 to it, r being the message's raw count and p the
\* previous raw count; no other step changes the count.  The difference the
\* code computes is (r - p) mod 256 for all bytes p and r (a fact about
\* Difference alone, looked at once, on the first call of a behaviour).
C5_UnwrapCorrect ==
    [][/\ \A t \in Threads :
             (pc[t] = "sd_count" /\ pc'[t] # "sd_count") =>
                 _beat_count' = _beat_count +
                     ((At(frame[t].data, heart_beat_count_index)
                         - _previous_beat_count) % 256)
       /\ (\A t \in Threads : ~(pc[t] = "sd_count" /\ pc'[t] # "sd_count")) =>
             _beat_count' = _beat_count
       /\ (ncalls = 0 /\ ncalls' = 1) =>
             \A p \in 0..255 : \A r \in 0..255 :
                 Difference(p, r) = (r - p) % 256]_vars

\* C5 witness: raw count 255 followed by raw count 1 (a wrap) has added 2.
C5_Witness ==
    \E t \in Threads :
        /\ pc[t] = "sd_time"
        /\ At(frame[t].data, heart_beat_count_index) = 1
        /\ frame[t].difference = 2
        /\ _beat_count = 257

\* C6: a valid message whose beat difference is 1 gets as far as the callback
\* with rr_interval = (event_time - previous event time) * 1000 / 1024, the
\* previous event time being the one the preceding valid message stored, or
\* the 0 of __init__ when none has.
C6_SingleBeatInterval ==
    [][\A t \in Threads :
          (pc[t] = "sd_time" /\ pc'[t] # "sd_time" /\ frame[t].difference = 1) =>
              /\ pc'[t] = "sd_notify"
              /\ frame'[t].rr_interval =
                     Interval(EventTime(frame[t].data),
                              IF previous_event_time = NoAttribute
                              THEN _previous_event_time
                              ELSE previous_event_time)]_vars

\* C7: a valid message whose beat difference is not 1 gets rr_interval 0,
\* stores its event time as the previous event time, and hands 0 to
\* heartrate_data as the third argument.
C7_NonUnitSuppressesInterval ==
    [][\A t \in Threads :
          /\ (pc[t] = "sd_time" /\ pc'[t] # "sd_time" /\ frame[t].difference # 1) =>
                 /\ pc'[t] = "sd_notify"
                 /\ frame'[t].rr_interval = 0
                 /\ previous_event_time' = EventTime(frame[t].data)
          /\ (pc[t] = "sd_args" /\ pc'[t] = "heartrate_data"
                  /\ frame[t].difference # 1) =>
                 frame'[t].args[3] = 0]_vars

\* C7 witness: heartrate_data entered with rr_interval 0 for a second message
\* (raw count 255 after raw count 0) whose event time, 1, is not the first
\* message's.
C7_Witness ==
    \E t \in Threads :
        /\ pc[t] = "heartrate_data"
        /\ frame[t].msg = 2
        /\ frame[t].difference = 255
        /\ frame[t].args = <<0, 255, 0>>
        /\ previous_event_time = 1

\* C8: while _set_data is handling message n, a reader that holds the lock
\* finds either all or none of the four derived fields written by message n.
C8_ReaderSeesWholeMessage ==
    \A r \in Threads : \A w \in Threads :
        (pc[r] = "chr_read" /\ InSetData(w) /\ frame[w].msg > 0) =>
            \/ AllFrom(frame[w].msg)
            \/ /\ writer.rate # frame[w].msg
               /\ writer.count # frame[w].msg
               /\ writer.previous # frame[w].msg
               /\ writer.time # frame[w].msg

\* C9: no step of _set_detected_device changes a derived field and no step of
\* _set_data changes the detected device.
C9_DiscoveryIndependence ==
    [][\A t \in Threads :
          /\ (\E n \in DeviceNumbers, ty \in TransmissionTypes :
                  SetDetectedDeviceCall(t, n, ty)) => UNCHANGED fields
          /\ (InSetDetectedDevice(t) /\ pc'[t] # pc[t]) => UNCHANGED fields
          /\ (\E d \in Payloads : SetDataCall(t, d)) => UNCHANGED _detected_device
          /\ (InSetData(t) /\ pc'[t] # pc[t]) => UNCHANGED _detected_device]_vars

\* C9 witness: a device was stored after a message had set the derived fields.
C9_Witness ==
    /\ _detected_device = <<2, 1>>
    /\ _computed_heart_rate = 60
    /\ _beat_count = 255
    /\ previous_event_time = 1024
    /\ \E t \in Threads : pc[t] = "device_found"

\* C10: a thread that is inside heartrate_data or device_found does not hold
\* the lock, and when the observer reads computed_heart_rate from inside
\* either, the lock is free or held by another thread that is inside a
\* critical section (so the read is never stuck behind its own thread).
C10_CallbacksOutsideLock ==
    \A t \in Threads :
        /\ InCallback(t) => lock # t
        /\ (pc[t] = "chr_lock" /\ frame[t].ret # "idle") =>
               \/ lock = Free
               \/ lock # t /\ InCritical(lock)

\* C10 witness: reads of computed_heart_rate made from inside heartrate_data
\* and from inside device_found have both got their value.
C10_Witness ==
    \E t \in Threads : \E u \in Threads :
        /\ pc[t] = "chr_return" /\ frame[t].ret = "heartrate_data"
        /\ frame[t].rate = 60
        /\ pc[u] = "chr_return" /\ frame[u].ret = "device_found"

\* C11: with an observer that has heartrate_data, a call of _set_data that got
\* past the length test goes back to its caller only out of heartrate_data:
\* every valid message has its callback.
C11_ValidMessageNotifies ==
    [][\A t \in Threads :
          (callback.registered /\ callback.heartrate_data
              /\ InSetData(t) /\ pc'[t] = "idle") =>
              pc[t] = "heartrate_data"]_vars

\* C12: the computed heart rate is None exactly as long as no valid message
\* has run line 104; line 104 sets it to byte 8 of its message and no other
\* step (of a dropped message, a discovery, a reader) changes it; and what
\* computed_heart_rate returns is the field, last written by the most recent
\* message to have taken the lock.
C12_HeartRateIsLatest ==
    [][/\ (_computed_heart_rate = None) <=> (writer.rate = 0)
       /\ \A t \in Threads :
             /\ (pc[t] = "sd_rate" /\ pc'[t] # "sd_rate") =>
                    _computed_heart_rate' =
                        At(frame[t].data, computed_heart_rate_index)
             /\ (pc[t] = "chr_read" /\ pc'[t] # "chr_read") =>
                    /\ frame'[t].rate = _computed_heart_rate
                    /\ writer.rate = nmsg
       /\ (\A t \in Threads : ~(pc[t] = "sd_rate" /\ pc'[t] # "sd_rate")) =>
             _computed_heart_rate' = _computed_heart_rate]_vars

\* C12 witness: the application has read 0 after two valid messages, the
\* second with a heart rate byte of 0.
C12_Witness ==
    \E t \in Threads :
        /\ pc[t] = "chr_return"
        /\ frame[t].ret = "idle"
        /\ frame[t].rate = 0
        /\ nmsg = 2
        /\ writer.rate = 2

\* C13: whatever the observer (none, device_found only, heartrate_data only,
\* both), no call raises; heartrate_data is entered only from _set_data and
\* only if the observer has it, device_found only from _set_detected_device
\* and only if the observer has it, and a call whose callback is missing
\* returns.
C13_OptionalCapabilities ==
    [][\A t \in Threads :
          /\ pc'[t] # "sd_raise"
          /\ (pc'[t] = "heartrate_data" /\ pc[t] # "heartrate_data") =>
                 callback.registered /\ callback.heartrate_data /\ pc[t] = "sd_args"
          /\ (pc'[t] = "device_found" /\ pc[t] # "device_found") =>
                 callback.registered /\ callback.device_found /\ pc[t] = "dd_store"
          /\ (pc[t] = "sd_notify" /\ pc'[t] # "sd_notify"
                  /\ ~(callback.registered /\ callback.heartrate_data)) =>
                 pc'[t] = "idle"
          /\ (pc[t] = "dd_store" /\ pc'[t] # "dd_store"
                  /\ ~(callback.registered /\ callback.device_found)) =>
                 pc'[t] = "idle"]_vars

\* C14: the detected device is None until _set_detected_device has stored
\* one; line 133 sets it to the pair the call was made with, whatever it was
\* before, and no other step changes it; device_found, when the observer has
\* it, is entered right after the store with that same pair; detected_device
\* returns the field.
C14_DetectedDeviceIsLatest ==
    [][/\ ncalls = 0 => _detected_device = NoDevice
       /\ \A t \in Threads :
             /\ (pc[t] = "dd_store" /\ pc'[t] # "dd_store") =>
                    /\ _detected_device' = frame[t].device
                    /\ frame[t].device \in DeviceNumbers \X TransmissionTypes
                    /\ (callback.registered /\ callback.device_found) =>
                           /\ pc'[t] = "device_found"
                           /\ frame'[t].args = frame[t].device
             /\ (pc[t] = "idle" /\ pc'[t] = "det_return") =>
                    frame'[t].detected = _detected_device
       /\ (\A t \in Threads : ~(pc[t] = "dd_store" /\ pc'[t] # "dd_store")) =>
             _detected_device' = _detected_device]_vars

\* C14 witness: a second discovery has replaced device 1 by device 2 (the
\* first call is still inside device_found with its own pair) and
\* detected_device has returned device 2.
C14_Witness ==
    \E t \in Threads : \E u \in Threads :
        /\ pc[t] = "device_found"
        /\ frame[t].args = <<1, 1>>
        /\ pc[u] = "det_return"
        /\ frame[u].detected = <<2, 1>>

\* C15: heartrate_data is entered with the heart rate and the cumulative beat
\* count that the same call of _set_data wrote, and with its rr_interval.
C15_CallbackArgsOfOneMessage ==
    \A t \in Threads :
        pc[t] = "heartrate_data" =>
            frame[t].args = frame[t].own \o <<frame[t].rr_interval>>

\* C16: whenever the lock is free the heart rate, the cumulative beat count,
\* the previous raw beat count and the previous event time are what the valid
\* messages so far give when lines 104-124 are applied to them one after
\* another in the order in which they took the lock, and every field was
\* written last by the message that took the lock last.
C16_UpdatesInLockOrder ==
    lock = Free =>
        /\ _computed_heart_rate = serial.rate
        /\ _beat_count = serial.count
        /\ _previous_beat_count = serial.previous
        /\ previous_event_time = serial.time
        /\ writer.rate = nmsg /\ writer.count = nmsg /\ writer.previous = nmsg

\* Three messages of two threads, the second taking the lock while the first
\* is between its with block and its callback; their beats add up to 257.
C16_Witness ==
    /\ lock = Free
    /\ nmsg = 3
    /\ _beat_count = 257
    /\ \E t, u \in Threads :
          /\ pc[t] = "sd_args" /\ frame[t].msg = 1
          /\ pc[u] = "sd_notify" /\ frame[u].msg = 3

\* C17: the lock is held by a thread exactly while that thread is inside one of
\* the with blocks (lines 103-124, 132-133, 146-147), so it is free whenever
\* no thread is inside one, also after the AttributeError of line 120; and
\* under fair scheduling every call that has begun comes back to its caller.
C17_NoOperationBlocks ==
    /\ [](\A t \in Threads : InCritical(t) <=> lock = t)
    /\ []((lock = Free) <=> (\A t \in Threads : ~InCritical(t)))
    /\ \A t \in Threads : (pc[t] # "idle") ~> (pc[t] = "idle")

\* A message has left its with block by the error while the other thread
\* waits for the lock, which is free.
C17_Witness ==
    \E t, u \in Threads :
        /\ pc[t] = "sd_raise"
        /\ pc[u] \in {"sd_lock", "dd_lock", "chr_lock"}
        /\ lock = Free

\* C18: whenever the lock is free, _previous_beat_count is a byte and
\* _beat_count is congruent to it modulo 256.
C18_CountCongruentToPrevious ==
    lock = Free =>
        /\ _previous_beat_count \in 0..255
        /\ _beat_count % 256 = _previous_beat_count

\* The counter has wrapped: raw counts 255, 0 and 1 have been processed, the
\* cumulative count is 257 and the previous raw count 1, with the lock free.
C18_Witness ==
    /\ lock = Free
    /\ nmsg = 3
    /\ _beat_count = 257
    /\ _previous_beat_count = 1
    /\ \A t \in Threads : pc[t] = "idle"

====
